---- MODULE Spec2Model ----
(***************************************************************************)
(* State-machine model of the NYC taxi ingestion pipelines.                *)
(*                                                                         *)
(*  - prefect_pipelines/pipeline.py: the sequential, monthly-partitioned   *)
(*    flow etl_taxi_trips (fetch -> rename -> replace -> upload per unit). *)
(*  - prefect_pipelines/upload_to_postgres.py: the yearly-partitioned      *)
(*    load run by a multiprocessing pool (replace for month 1, append for  *)
(*    the other months).                                                   *)
(*  - elt_pipelines/upload_to_postgres.py: the same yearly load with the   *)
(*    tables dropped by setup_database and every month appended by a pool  *)
(*    of two workers.                                                      *)
(*  - airflow/dags/ingest_data_dag.py: the definition of LocalIngestionDag, *)
(*    which Airflow rejects, and its function upload_to_postgres called    *)
(*    on a monthly file.                                                   *)
(*  - the naming functions and column_formatter, applied to inputs drawn   *)
(*    from bounded sets (specifications SpecNaming and SpecColumns).       *)
(*                                                                         *)
(* Strings are sequences of one-character strings, so that formatting and  *)
(* parsing of names are computed and not assumed.                          *)
(***************************************************************************)
EXTENDS Integers, Sequences, FiniteSets, Bags, TLC

\* ------------------------------------------------------------------------
\* Bounds of the model
\* ------------------------------------------------------------------------
\* months iterated by etl_taxi_trips (the code iterates range(1, 13))
NumMonths == 1
\* invocations of etl_taxi_trips that are explored
MaxRuns == 2
\* rows of one monthly source file
SrcRows == 2
\* monthly data files per service found by get_data_files
PoolMonths == 2
\* worker processes of the pool (mp.cpu_count() in the code)
PoolProcesses == 2

\* ------------------------------------------------------------------------
\* Program constants
\* ------------------------------------------------------------------------
\* retries=3 of the @task decorators
Retries == 3
\* etl_taxi_trips(2020)
Year == 2020
\* load_data(2019)
PoolYear == 2019

\* ------------------------------------------------------------------------
\* Strings
\* ------------------------------------------------------------------------
yellow == <<"y", "e", "l", "l", "o", "w">>
green == <<"g", "r", "e", "e", "n">>
Services == {yellow, green}

GZ == <<".", "g", "z">>
STAGING == <<"s", "t", "a", "g", "i", "n", "g">>
TRIPS_DATA_ALL == <<"t", "r", "i", "p", "s", "_", "d", "a", "t", "a", "_", "a", "l", "l">>

DigitChars == <<"0", "1", "2", "3", "4", "5", "6", "7", "8", "9">>
UpperChars == <<"A", "B", "C", "D", "E", "F", "G", "H", "I", "J", "K", "L", "M", "N", "O", "P", "Q", "R", "S", "T", "U", "V", "W", "X", "Y", "Z">>
LowerChars == <<"a", "b", "c", "d", "e", "f", "g", "h", "i", "j", "k", "l", "m", "n", "o", "p", "q", "r", "s", "t", "u", "v", "w", "x", "y", "z">>

\* format(n, 'd') for n >= 0
RECURSIVE Dec(_)
Dec(n) == IF n < 10 THEN <<DigitChars[n + 1]>>
          ELSE Dec(n \div 10) \o <<DigitChars[(n % 10) + 1]>>

\* format(n, '0{w}d'): zero padding on the left up to width w
RECURSIVE ZeroPad(_, _)
ZeroPad(s, w) == IF Len(s) >= w THEN s ELSE ZeroPad(<<"0">> \o s, w)

\* s.startswith(p)
StartsWith(s, p) == /\ Len(s) >= Len(p)
                    /\ SubSeq(s, 1, Len(p)) = p

\* s.endswith(p)
EndsWith(s, p) == /\ Len(s) >= Len(p)
                  /\ SubSeq(s, Len(s) - Len(p) + 1, Len(s)) = p

\* str.replace(old, new) for a non-empty old: leftmost non-overlapping matches
RECURSIVE StrReplace(_, _, _)
StrReplace(s, old, new) ==
    IF s = <<>> THEN <<>>
    ELSE IF StartsWith(s, old)
         THEN new \o StrReplace(SubSeq(s, Len(old) + 1, Len(s)), old, new)
         ELSE <<Head(s)>> \o StrReplace(Tail(s), old, new)

\* str.lower() on ASCII letters
LowerChar(c) == IF \E i \in 1..26 : UpperChars[i] = c
                THEN LowerChars[CHOOSE i \in 1..26 : UpperChars[i] = c]
                ELSE c
StrLower(s) == [i \in 1..Len(s) |-> LowerChar(s[i])]

\* s.removesuffix(p)
RemoveSuffix(s, p) == IF EndsWith(s, p) THEN SubSeq(s, 1, Len(s) - Len(p)) ELSE s

\* s.split(c) for a one-character separator c
RECURSIVE StrSplit(_, _)
StrSplit(s, c) ==
    IF \A i \in 1..Len(s) : s[i] # c THEN <<s>>
    ELSE LET k == CHOOSE i \in 1..Len(s) : s[i] = c /\ \A j \in 1..(i - 1) : s[j] # c
         IN <<SubSeq(s, 1, k - 1)>> \o StrSplit(SubSeq(s, k + 1, Len(s)), c)

\* os.path.basename
Basename(path) == LET parts == StrSplit(path, "/") IN parts[Len(parts)]

\* int(s) for a string of decimal digits
DigitValue(c) == (CHOOSE i \in 1..10 : DigitChars[i] = c) - 1
RECURSIVE ParseInt(_)
ParseInt(s) == IF Len(s) = 0 THEN 0
               ELSE 10 * ParseInt(SubSeq(s, 1, Len(s) - 1)) + DigitValue(s[Len(s)])

\* ------------------------------------------------------------------------
\* Unit-of-work descriptor (pipeline.py)
\* ------------------------------------------------------------------------
construct_url(service, year, month) ==
    <<"h", "t", "t", "p", "s", ":", "/", "/", "d", "3", "7", "c", "i", "6", "v", "z", "u", "r", "y", "c", "h", "x", ".", "c", "l", "o", "u", "d", "f", "r", "o", "n", "t", ".", "n", "e", "t", "/", "t", "r", "i", "p", "-", "d", "a", "t", "a", "/">>
    \o service \o <<"_", "t", "r", "i", "p", "d", "a", "t", "a", "_">>
    \o Dec(year) \o <<"-">> \o ZeroPad(Dec(month), 2)
    \o <<".", "p", "a", "r", "q", "u", "e", "t">>

\* construct_file_path that leaves the month out of the file name
construct_file_path_no_month(service, year, month) ==
    <<".", "/", "d", "a", "t", "a", "/">> \o service \o <<"/">> \o Dec(year) \o <<"/">>
    \o service \o <<"_", "t", "r", "i", "p", "d", "a", "t", "a", "_">>
    \o Dec(year)
    \o <<".", "p", "a", "r", "q", "u", "e", "t">>

construct_file_path(service, year, month) ==
    <<".", "/", "d", "a", "t", "a", "/">> \o service \o <<"/">> \o Dec(year) \o <<"/">>
    \o service \o <<"_", "t", "r", "i", "p", "d", "a", "t", "a", "_">>
    \o Dec(year) \o <<"-">> \o ZeroPad(Dec(month), 2)
    \o <<".", "p", "a", "r", "q", "u", "e", "t">>

\* construct_table_name that leaves the month out of the name
construct_table_name_no_month(service, year, month) ==
    service \o <<"_", "t", "r", "i", "p", "d", "a", "t", "a", "_">>
    \o ZeroPad(Dec(year), 4)

construct_table_name(service, year, month) ==
    service \o <<"_", "t", "r", "i", "p", "d", "a", "t", "a", "_">>
    \o ZeroPad(Dec(year), 4) \o <<"_">> \o ZeroPad(Dec(month), 2)

\* ------------------------------------------------------------------------
\* Data: source files, data frames, files on disk, warehouse tables
\* ------------------------------------------------------------------------
\* column names of the published trip files (a representative subset)
SourceColumns(service) ==
    IF service = yellow
    THEN << <<"V", "e", "n", "d", "o", "r", "I", "D">>,
            <<"t", "p", "e", "p", "_", "p", "i", "c", "k", "u", "p", "_", "d", "a", "t", "e", "t", "i", "m", "e">>,
            <<"P", "U", "L", "o", "c", "a", "t", "i", "o", "n", "I", "D">>,
            <<"D", "O", "L", "o", "c", "a", "t", "i", "o", "n", "I", "D">> >>
    ELSE << <<"V", "e", "n", "d", "o", "r", "I", "D">>,
            <<"l", "p", "e", "p", "_", "p", "i", "c", "k", "u", "p", "_", "d", "a", "t", "e", "t", "i", "m", "e">>,
            <<"P", "U", "L", "o", "c", "a", "t", "i", "o", "n", "I", "D">>,
            <<"D", "O", "L", "o", "c", "a", "t", "i", "o", "n", "I", "D">> >>

\* the rows of the monthly file of (service, year, month)
SourceRows(service, year, month) == {<<service, year, month, i>> : i \in 1..SrcRows}

\* no data frame / no file content
NoFrame == [kind |-> "none", columns |-> <<>>, rows |-> {}]
\* a file that is not a readable parquet file (empty or truncated)
CorruptFile == [kind |-> "corrupt", columns |-> <<>>, rows |-> {}]
Frame(cols, rws) == [kind |-> "parquet", columns |-> cols, rows |-> rws]

\* the file the remote source serves for a unit
RemoteFile(service, year, month) == Frame(SourceColumns(service), SourceRows(service, year, month))

\* os.path.exists
PathExists(d, path) == path \in DOMAIN d
\* os.remove of an existing file
RemoveFile(d, path) == [q \in (DOMAIN d) \ {path} |-> d[q]]
\* creating or overwriting a file
WriteFile(d, path, content) == [q \in (DOMAIN d) \cup {path} |-> IF q = path THEN content ELSE d[q]]

\* pd.read_parquet: the frame, or the exception it raises
read_parquet(d, path) ==
    IF ~PathExists(d, path) THEN [err |-> "FileNotFoundError", frame |-> NoFrame]
    ELSE IF d[path].kind # "parquet" THEN [err |-> "ArrowInvalid", frame |-> NoFrame]
    ELSE [err |-> "none", frame |-> d[path]]

\* warehouse tables: a function from <<schema, name>> to [columns, rows]
TableKey(schema, tablename) == <<schema, tablename>>
has_table(tbls, tablename, schema) == TableKey(schema, tablename) \in DOMAIN tbls
CreateTable(tbls, key, cols) ==
    [k \in (DOMAIN tbls) \cup {key} |-> IF k = key THEN [columns |-> cols, rows |-> EmptyBag] ELSE tbls[k]]
DropTable(tbls, key) == [k \in (DOMAIN tbls) \ {key} |-> tbls[k]]
InsertRows(tbls, key, rws) ==
    [tbls EXCEPT ![key] = [columns |-> @.columns, rows |-> @.rows (+) SetToBag(rws)]]

\* ------------------------------------------------------------------------
\* Stage bodies of pipeline.py
\* ------------------------------------------------------------------------
\* the units of one run, in the order of the loop of etl_taxi_trips:
\* for month in range(1, 13): yellow, then green
NumUnits == 2 * NumMonths
UnitAt(i) == [month |-> (i + 1) \div 2, service |-> IF i % 2 = 1 THEN yellow ELSE green]

\* the file served at a URL of the remote source
RemoteContent(url) ==
    LET u == CHOOSE u \in [service : Services, month : 1..12] :
                 construct_url(u.service, Year, u.month) = url
    IN RemoteFile(u.service, Year, u.month)

\* outcomes of `wget url -O filepath` run by os.system:
\*   ok      the file is written completely
\*   corrupt the transfer fails (404, network error) or is truncated; -O has
\*           created the output file, which is empty or partial
\*   nofile  the command cannot run and writes nothing
WgetOutcomes == {"ok", "corrupt", "nofile"}
wget(d, url, filepath, outcome) ==
    IF outcome = "ok" THEN WriteFile(d, filepath, RemoteContent(url))
    ELSE IF outcome = "corrupt" THEN WriteFile(d, filepath, CorruptFile)
    ELSE d

\* fetch_dataset that always downloads
FetchSkips_never(d, filepath) == FALSE

\* fetch_dataset that looks for the compressed file only
FetchSkips_gz_only(d, filepath) == PathExists(d, filepath \o GZ)

\* fetch_dataset: "if file already exists, skip"
FetchSkips(d, filepath) == PathExists(d, filepath \o GZ) \/ PathExists(d, filepath)

\* column_formatter that expands 'PUL' the way it expands 'DOL'
column_formatter_pul_as_dol(name) ==
    StrReplace(
        StrReplace(
            StrLower(
                StrReplace(
                    StrReplace(name, <<"P", "U", "L">>, <<"d", "r", "o", "p", "o", "f", "f", "_", "l">>),
                    <<"D", "O", "L">>, <<"d", "r", "o", "p", "o", "f", "f", "_", "l">>)),
            <<"t", "p", "e", "p", "_">>, <<>>),
        <<"l", "p", "e", "p", "_">>, <<>>)

\* rename_columns.column_formatter
column_formatter(name) ==
    StrReplace(
        StrReplace(
            StrLower(
                StrReplace(
                    StrReplace(name, <<"P", "U", "L">>, <<"p", "i", "c", "k", "u", "p", "_", "l">>),
                    <<"D", "O", "L">>, <<"d", "r", "o", "p", "o", "f", "f", "_", "l">>)),
            <<"t", "p", "e", "p", "_">>, <<>>),
        <<"l", "p", "e", "p", "_">>, <<>>)

\* rename_columns: read the raw file, or the compressed one when the raw file
\* is not found; any other read error propagates
rename_columns(d, filepath) ==
    LET r1 == read_parquet(d, filepath)
        r == IF r1.err = "FileNotFoundError" THEN read_parquet(d, filepath \o GZ) ELSE r1
    IN IF r.err # "none" THEN r
       ELSE [err |-> "none",
             frame |-> Frame([i \in 1..Len(r.frame.columns) |-> column_formatter(r.frame.columns[i])],
                             r.frame.rows)]

\* replace_data_file: "if file already exists, skip"
ReplaceSkips(d, filepath) == PathExists(d, filepath \o GZ)

\* replace_data_file that leaves the raw file in place
replace_data_file_keep(d, filepath) == [err |-> "none", disk |-> d]

\* replace_data_file, up to and including os.remove(filepath)
replace_data_file_remove(d, filepath) ==
    IF PathExists(d, filepath)
    THEN [err |-> "none", disk |-> RemoveFile(d, filepath)]
    ELSE [err |-> "FileNotFoundError", disk |-> d]

\* outcomes of df.to_parquet(filepath + '.gz'):
\*   ok       the file is written
\*   nofile   the write fails and leaves no file
\*   partial  the write fails and leaves an unreadable file
WriteOutcomes == {"ok", "nofile", "partial"}
to_parquet(d, frame, path, outcome) ==
    IF outcome = "ok" THEN WriteFile(d, path, frame)
    ELSE IF outcome = "partial" THEN WriteFile(d, path, CorruptFile)
    ELSE d

\* faults of a warehouse call:
\*   none           no fault
\*   connect        the database cannot be reached (inspect(engine) raises)
\*   before_create  to_sql raises and no table is left behind (it fails
\*                  before CREATE TABLE, or the DDL is rolled back with it)
\*   after_create   to_sql raises while inserting, after CREATE TABLE was
\*                  committed: the inserts of the transaction are rolled back
LoadFaults == {"none", "connect", "before_create", "after_create"}

\* DataFrame.to_sql run alone: [tables, raised]
to_sql(tbls, frame, tablename, schema, if_exists, fault) ==
    LET key == TableKey(schema, tablename)
        exists == has_table(tbls, tablename, schema)
        prepared == IF exists
                    THEN IF if_exists = "replace"
                         THEN CreateTable(DropTable(tbls, key), key, frame.columns)
                         ELSE tbls
                    ELSE CreateTable(tbls, key, frame.columns)
    IN IF exists /\ if_exists = "fail" THEN [tables |-> tbls, raised |-> TRUE]
       ELSE IF fault = "before_create" THEN [tables |-> tbls, raised |-> TRUE]
       ELSE IF fault = "after_create" THEN [tables |-> prepared, raised |-> TRUE]
       ELSE [tables |-> InsertRows(prepared, key, frame.rows), raised |-> FALSE]

\* upload_to_postgres that appends without looking for the table
upload_to_postgres_append(tbls, frame, tablename, schema, fault) ==
    IF fault = "connect" THEN [tables |-> tbls, report |-> "failed"]
    ELSE LET r == to_sql(tbls, frame, tablename, schema, "append", fault)
         IN [tables |-> r.tables, report |-> IF r.raised THEN "failed" ELSE "loaded"]

\* upload_to_postgres of pipeline.py: [tables, report]; every exception is
\* caught by `except Exception`, printed, and the function returns
upload_to_postgres(tbls, frame, tablename, schema, fault) ==
    IF fault = "connect" THEN [tables |-> tbls, report |-> "failed"]
    ELSE IF has_table(tbls, tablename, schema) THEN [tables |-> tbls, report |-> "exists"]
    ELSE LET r == to_sql(tbls, frame, tablename, schema, "fail", fault)
         IN [tables |-> r.tables, report |-> IF r.raised THEN "failed" ELSE "loaded"]

\* ------------------------------------------------------------------------
\* State
\* ------------------------------------------------------------------------
VARIABLES
    disk,         \* local files: path -> content
    tables,       \* warehouse tables: <<schema, name>> -> [columns, rows]
    schemas,      \* warehouse schemas that exist
    transfers,    \* number of wget invocations so far
    run,          \* invocations of etl_taxi_trips so far
    flow,         \* state of the flow run: idle, setup, running, completed, failed, crashed
    idx,          \* position of the current unit in the loop of etl_taxi_trips
    stage,        \* statement of etl_subflow that runs next
    tries,        \* failed attempts of the current task run
    df,           \* the data frame held by etl_subflow
    taskState,    \* state of the task runs of the current unit
    lastWget,     \* what fetch_dataset did for the current unit
    loadReport,   \* what upload_to_postgres printed for the current unit
    loadFault,    \* the warehouse fault met by the current unit's load
    runClean,     \* no failure has happened in the current run
    cleanRun,     \* the first run that completed without any failure (0: none yet)
    uploadsRun,   \* units whose load stage ran in the current run
    partialLoads, \* units one of whose loads failed after creating the table
    reloaded,     \* units whose load stage finished in a run after such a failure
    firstCanon,   \* content of the compressed file when transform first completed
    xformCount,   \* completed transform stages per unit
    attempts,     \* executions of each task for the current unit in the current run
    poolPhase,    \* load_data: idle, mapping, done, raised
    pending,      \* data files of pool.map not yet handed to a worker
    running,      \* the busy workers: [chunk, pc], the head of chunk being loaded
    doneFiles,    \* data files whose upload has returned
    raisedFiles,  \* data files whose upload has raised
    earlyAppends, \* files of a month # 1 whose load began before month 1 was loaded
    wiped,        \* files loaded in this run whose rows a later replace dropped
    prior,        \* what each yearly table held before load_data started
    dagImport,    \* outcome of the definition of LocalIngestionDag: none, loaded, or the error
    dagPc,        \* per service: where the call of upload_to_postgres of the DAG file stands
    dagDf,        \* per service: the data frame held by upload_to_postgres of the DAG
    dagCalls,     \* per service: calls of upload_to_postgres of the DAG file so far
    dagErr,       \* per service: what the last upload_to_postgres of the DAG raised
    dagStuck,     \* services whose repeated call found the file gone after a failed call
    args,         \* inputs handed to the pure naming and formatting functions
    result        \* what these functions returned for args

envVars == <<disk, tables, schemas, transfers>>
flowVars == <<run, flow, idx, stage, tries, df, taskState, lastWget, loadReport, loadFault>>
histVars == <<runClean, cleanRun, uploadsRun, partialLoads, reloaded, firstCanon, xformCount, attempts>>
poolVars == <<poolPhase, pending, running, doneFiles, raisedFiles, earlyAppends, wiped, prior>>
dagVars == <<dagImport, dagPc, dagDf, dagCalls, dagErr, dagStuck>>
fnVars == <<args, result>>
vars == <<envVars, flowVars, histVars, poolVars, dagVars, fnVars>>

PendingTasks == [fetch |-> "Pending", rename |-> "Pending", replace |-> "Pending", upload |-> "Pending"]
NoAttempts == [fetch |-> 0, rename |-> 0, replace |-> 0, upload |-> 0]
\* the task is executed once more
Attempted(task) == attempts' = [attempts EXCEPT ![task] = @ + 1]

CurService == UnitAt(idx).service
CurMonth == UnitAt(idx).month
CurUrl == construct_url(CurService, Year, CurMonth)
CurPath == construct_file_path(CurService, Year, CurMonth)
CurTable == construct_table_name(CurService, Year, CurMonth)

\* no flow run of pipeline.py has started
FlowIdle ==
    /\ transfers = 0
    /\ run = 0
    /\ flow = "idle"
    /\ idx = 0
    /\ stage = "none"
    /\ tries = 0
    /\ df = NoFrame
    /\ taskState = PendingTasks
    /\ lastWget = "none"
    /\ loadReport = "none"
    /\ loadFault = "none"
    /\ runClean = FALSE
    /\ cleanRun = 0
    /\ uploadsRun = {}
    /\ partialLoads = {}
    /\ reloaded = {}
    /\ firstCanon = [i \in 1..NumUnits |-> NoFrame]
    /\ xformCount = [i \in 1..NumUnits |-> 0]
    /\ attempts = NoAttempts

\* load_data has not started
PoolIdle ==
    /\ poolPhase = "idle"
    /\ pending = {}
    /\ running = {}
    /\ doneFiles = {}
    /\ raisedFiles = {}
    /\ earlyAppends = {}
    /\ wiped = {}

\* the DAG file has not been read and its upload_to_postgres not been called
DagIdle ==
    /\ dagImport = "none"
    /\ dagPc = [sv \in Services |-> "idle"]
    /\ dagDf = [sv \in Services |-> NoFrame]
    /\ dagCalls = [sv \in Services |-> 0]
    /\ dagErr = [sv \in Services |-> "none"]
    /\ dagStuck = {}

\* no naming or formatting function is under study
FnIdle ==
    /\ args = <<>>
    /\ result = <<>>

\* pipeline.py starts on an empty data directory and an empty warehouse
Init ==
    /\ disk = <<>>
    /\ tables = <<>>
    /\ schemas = {}
    /\ prior = <<>>
    /\ FlowIdle
    /\ PoolIdle
    /\ DagIdle
    /\ FnIdle

\* ------------------------------------------------------------------------
\* Task runs: a task that raises is run again up to Retries times, then the
\* exception propagates through etl_subflow and etl_taxi_trips
\* ------------------------------------------------------------------------
\* the task run raises
TaskRaises(task, entry) ==
    /\ runClean' = FALSE
    /\ IF tries < Retries
       THEN /\ tries' = tries + 1
            /\ taskState' = [taskState EXCEPT ![task] = "Retrying"]
            /\ stage' = entry
            /\ flow' = flow
       ELSE /\ tries' = tries
            /\ taskState' = [taskState EXCEPT ![task] = "Failed"]
            /\ stage' = stage
            /\ flow' = "failed"

\* an etl_subflow that hands the fetched file straight to the load
TaskCompletes_skip_transform(task, next) ==
    /\ tries' = 0
    /\ taskState' = [taskState EXCEPT ![task] = "Completed"]
    /\ stage' = IF task = "fetch" THEN "upload" ELSE next
    /\ flow' = flow

\* the task run returns
TaskCompletes(task, next) ==
    /\ tries' = 0
    /\ taskState' = [taskState EXCEPT ![task] = "Completed"]
    /\ stage' = next
    /\ flow' = flow

\* ------------------------------------------------------------------------
\* Actions of pipeline.py
\* ------------------------------------------------------------------------
\* etl_taxi_trips(year) is invoked
etl_taxi_trips ==
    /\ flow \in {"idle", "completed", "failed", "crashed"}
    /\ run < MaxRuns
    /\ run' = run + 1
    /\ flow' = "setup"
    /\ stage' = "setup"
    /\ idx' = 0
    /\ tries' = 0
    /\ df' = NoFrame
    /\ taskState' = PendingTasks
    /\ lastWget' = "none"
    /\ loadReport' = "none"
    /\ loadFault' = "none"
    /\ runClean' = TRUE
    /\ uploadsRun' = {}
    /\ attempts' = NoAttempts
    /\ UNCHANGED <<envVars, cleanRun, partialLoads, reloaded, firstCanon, xformCount>>
    /\ UNCHANGED <<poolVars, dagVars, fnVars>>

\* setup_database(): CREATE SCHEMA IF NOT EXISTS staging; a connection
\* error propagates out of the flow
setup_database ==
    /\ flow = "setup"
    /\ \E fault \in {"none", "connect"} :
         IF fault = "none"
         THEN /\ schemas' = schemas \cup {STAGING}
              /\ flow' = "running"
              /\ idx' = 1
              /\ stage' = "fetch"
              /\ runClean' = runClean
         ELSE /\ schemas' = schemas
              /\ flow' = "failed"
              /\ idx' = idx
              /\ stage' = stage
              /\ runClean' = FALSE
    /\ UNCHANGED <<disk, tables, transfers, run, tries, df, taskState, lastWget, loadReport, loadFault>>
    /\ UNCHANGED <<cleanRun, uploadsRun, partialLoads, reloaded, firstCanon, xformCount, attempts>>
    /\ UNCHANGED <<poolVars, dagVars, fnVars>>

\* fetch_dataset(url, filepath): os.system returns the exit status of wget,
\* which is not looked at; the task never raises
fetch_dataset ==
    /\ flow = "running"
    /\ stage = "fetch"
    /\ IF FetchSkips(disk, CurPath)
       THEN /\ disk' = disk
            /\ transfers' = transfers
            /\ lastWget' = "skipped"
            /\ runClean' = runClean
       ELSE \E outcome \in WgetOutcomes :
            /\ disk' = wget(disk, CurUrl, CurPath, outcome)
            /\ transfers' = transfers + 1
            /\ lastWget' = outcome
            /\ runClean' = (runClean /\ outcome = "ok")
    /\ TaskCompletes("fetch", "rename")
    /\ Attempted("fetch")
    /\ UNCHANGED <<tables, schemas, run, idx, df, loadReport, loadFault>>
    /\ UNCHANGED <<cleanRun, uploadsRun, partialLoads, reloaded, firstCanon, xformCount>>
    /\ UNCHANGED <<poolVars, dagVars, fnVars>>

\* df = rename_columns(filepath, service)
rename_columns_task ==
    /\ flow = "running"
    /\ stage = "rename"
    /\ LET r == rename_columns(disk, CurPath)
       IN IF r.err = "none"
          THEN /\ df' = r.frame
               /\ TaskCompletes("rename", "replace")
               /\ runClean' = runClean
          ELSE /\ df' = df
               /\ TaskRaises("rename", "rename")
    /\ Attempted("rename")
    /\ UNCHANGED <<envVars, run, idx, lastWget, loadReport, loadFault>>
    /\ UNCHANGED <<cleanRun, uploadsRun, partialLoads, reloaded, firstCanon, xformCount>>
    /\ UNCHANGED <<poolVars, dagVars, fnVars>>

\* the transform stage of the current unit has returned
TransformDone(d) ==
    /\ xformCount' = [xformCount EXCEPT ![idx] = @ + 1]
    /\ firstCanon' = IF xformCount[idx] = 0
                     THEN [firstCanon EXCEPT ![idx] = d[CurPath \o GZ]]
                     ELSE firstCanon

\* df = replace_data_file(df, filepath), up to os.remove
replace_data_file ==
    /\ flow = "running"
    /\ stage = "replace"
    /\ IF ReplaceSkips(disk, CurPath)
       THEN LET r == read_parquet(disk, CurPath \o GZ)
            IN /\ disk' = disk
               /\ IF r.err = "none"
                  THEN /\ df' = r.frame
                       /\ TaskCompletes("replace", "upload")
                       /\ runClean' = runClean
                       /\ TransformDone(disk)
                  ELSE /\ df' = df
                       /\ TaskRaises("replace", "replace")
                       /\ UNCHANGED <<firstCanon, xformCount>>
       ELSE LET r == replace_data_file_remove(disk, CurPath)
            IN /\ disk' = r.disk
               /\ df' = df
               /\ UNCHANGED <<firstCanon, xformCount>>
               /\ IF r.err = "none"
                  THEN /\ stage' = "replace_write"
                       /\ UNCHANGED <<tries, taskState, flow, runClean>>
                  ELSE TaskRaises("replace", "replace")
    /\ Attempted("replace")
    /\ UNCHANGED <<tables, schemas, transfers, run, idx, lastWget, loadReport, loadFault>>
    /\ UNCHANGED <<cleanRun, uploadsRun, partialLoads, reloaded>>
    /\ UNCHANGED <<poolVars, dagVars, fnVars>>

\* replace_data_file, from df.to_parquet to the return
replace_data_file_write ==
    /\ flow = "running"
    /\ stage = "replace_write"
    /\ \E outcome \in WriteOutcomes :
         /\ disk' = to_parquet(disk, df, CurPath \o GZ, outcome)
         /\ IF outcome = "ok"
            THEN /\ df' = read_parquet(disk', CurPath \o GZ).frame
                 /\ TaskCompletes("replace", "upload")
                 /\ runClean' = runClean
                 /\ TransformDone(disk')
            ELSE /\ df' = df
                 /\ TaskRaises("replace", "replace")
                 /\ UNCHANGED <<firstCanon, xformCount>>
    /\ UNCHANGED <<tables, schemas, transfers, run, idx, lastWget, loadReport, loadFault>>
    /\ UNCHANGED <<cleanRun, uploadsRun, partialLoads, reloaded, attempts>>
    /\ UNCHANGED <<poolVars, dagVars, fnVars>>

\* the faults that can show in a load of the given table
FaultsFor(tbls, tablename, schema) ==
    IF has_table(tbls, tablename, schema) THEN {"none", "connect"} ELSE LoadFaults

\* upload_to_postgres(df, tablename)
upload_to_postgres_task ==
    /\ flow = "running"
    /\ stage = "upload"
    /\ \E fault \in FaultsFor(tables, CurTable, STAGING) :
         LET r == upload_to_postgres(tables, df, CurTable, STAGING, fault)
             created == /\ ~has_table(tables, CurTable, STAGING)
                        /\ has_table(r.tables, CurTable, STAGING)
         IN /\ tables' = r.tables
            /\ loadReport' = r.report
            /\ loadFault' = fault
            /\ runClean' = (runClean /\ fault = "none")
            /\ partialLoads' = IF created /\ r.report = "failed"
                               THEN partialLoads \cup {idx} ELSE partialLoads
            /\ reloaded' = IF idx \in partialLoads /\ r.report \in {"loaded", "exists"}
                           THEN reloaded \cup {idx} ELSE reloaded
    /\ uploadsRun' = uploadsRun \cup {idx}
    /\ TaskCompletes("upload", "return")
    /\ Attempted("upload")
    /\ UNCHANGED <<disk, schemas, transfers, run, idx, df, lastWget>>
    /\ UNCHANGED <<cleanRun, firstCanon, xformCount>>
    /\ UNCHANGED <<poolVars, dagVars, fnVars>>

\* etl_subflow returns; the loop of etl_taxi_trips goes on to the next unit
\* or the flow run completes
etl_subflow_return ==
    /\ flow = "running"
    /\ stage = "return"
    /\ IF idx < NumUnits
       THEN /\ idx' = idx + 1
            /\ stage' = "fetch"
            /\ flow' = flow
            /\ cleanRun' = cleanRun
       ELSE /\ idx' = idx
            /\ stage' = "none"
            /\ flow' = "completed"
            /\ cleanRun' = IF cleanRun = 0 /\ runClean THEN run ELSE cleanRun
    /\ tries' = 0
    /\ df' = NoFrame
    /\ taskState' = PendingTasks
    /\ lastWget' = "none"
    /\ loadReport' = "none"
    /\ loadFault' = "none"
    /\ attempts' = NoAttempts
    /\ UNCHANGED <<envVars, run, runClean, uploadsRun, partialLoads, reloaded, firstCanon, xformCount>>
    /\ UNCHANGED <<poolVars, dagVars, fnVars>>

\* the process is killed while the flow runs
process_killed ==
    /\ flow \in {"setup", "running"}
    /\ flow' = "crashed"
    /\ runClean' = FALSE
    /\ UNCHANGED <<envVars, run, idx, stage, tries, df, taskState, lastWget, loadReport, loadFault>>
    /\ UNCHANGED <<cleanRun, uploadsRun, partialLoads, reloaded, firstCanon, xformCount, attempts>>
    /\ UNCHANGED <<poolVars, dagVars, fnVars>>

Next ==
    \/ etl_taxi_trips
    \/ setup_database
    \/ fetch_dataset
    \/ rename_columns_task
    \/ replace_data_file
    \/ replace_data_file_write
    \/ upload_to_postgres_task
    \/ etl_subflow_return
    \/ process_killed

Spec == Init /\ [][Next]_vars

\* ------------------------------------------------------------------------
\* prefect_pipelines/upload_to_postgres.py: yearly tables loaded by a pool
\* ------------------------------------------------------------------------
\* path of a compressed monthly file as glob returns it
PoolFilePath(service, year, month) ==
    <<"d", "a", "t", "a", "/">> \o service \o <<"/">> \o Dec(year) \o <<"/">>
    \o service \o <<"_", "t", "r", "i", "p", "d", "a", "t", "a", "_">>
    \o Dec(year) \o <<"-">> \o ZeroPad(Dec(month), 2)
    \o <<".", "p", "a", "r", "q", "u", "e", "t">> \o GZ

\* the compressed file the transform stage leaves for a unit
CanonicalFile(service, year, month) ==
    Frame([i \in 1..Len(SourceColumns(service)) |-> column_formatter(SourceColumns(service)[i])],
          SourceRows(service, year, month))

\* get_data_files(service, year): glob.glob(f'data/{service}/{year}/*.gz'),
\* whose result comes in no particular order
get_data_files(d, service, year) ==
    LET dir == <<"d", "a", "t", "a", "/">> \o service \o <<"/">> \o Dec(year) \o <<"/">>
    IN {path \in DOMAIN d :
          /\ StartsWith(path, dir)
          /\ EndsWith(path, GZ)
          /\ \A i \in (Len(dir) + 1)..Len(path) : path[i] # "/"}

\* upload_to_postgres: service, year and month parsed from the file name
ParseFilePath(filepath) ==
    LET filename == StrSplit(RemoveSuffix(Basename(filepath),
                                          <<".", "p", "a", "r", "q", "u", "e", "t", ".", "g", "z">>), "_")
        ym == StrSplit(filename[Len(filename)], "-")
    IN [service |-> filename[1], year |-> ParseInt(ym[1]), month |-> ParseInt(ym[2])]

\* upload_to_postgres: tablename = f'{service}_tripdata_{year}'
YearlyTableName(filepath) ==
    LET f == ParseFilePath(filepath)
    IN f.service \o <<"_", "t", "r", "i", "p", "d", "a", "t", "a", "_">> \o Dec(f.year)

YearlyTableKey(filepath) == TableKey(TRIPS_DATA_ALL, YearlyTableName(filepath))

\* upload_to_postgres that appends every month
IfExistsFor_append(month) == "append"

\* upload_to_postgres: if_exists='replace' for month 1, 'append' otherwise
IfExistsFor(month) == IF month = 1 THEN "replace" ELSE "append"

\* Pool.map: chunksize, extra = divmod(len(iterable), len(pool) * 4);
\* if extra: chunksize += 1
MapChunkSize(n, processes) ==
    IF n % (processes * 4) = 0 THEN n \div (processes * 4) ELSE (n \div (processes * 4)) + 1

\* the next chunk of data_files = yellow_files + green_files: the order
\* inside each glob result is arbitrary, so it is chosen when the chunk is
\* cut; the yellow files come before the green ones
NextChunks(pend, size) ==
    LET ys == {f \in pend : ParseFilePath(f).service = yellow}
        n == IF Cardinality(pend) < size THEN Cardinality(pend) ELSE size
    IN {c \in [1..n -> pend] :
          /\ \A i, j \in 1..n : i # j => c[i] # c[j]
          /\ \A i, j \in 1..n : (i < j /\ c[j] \in ys) => c[i] \in ys
          /\ (\E i \in 1..n : c[i] \notin ys) => \A y \in ys : \E i \in 1..n : c[i] = y}

\* the table left by an earlier load of the first k months of a service
\* (k = -1: no table; 0: an empty table; PoolMonths: a complete load)
PriorChoices == {-1, 0, 1, PoolMonths}
PriorTable(service, k) ==
    [columns |-> CanonicalFile(service, PoolYear, 1).columns,
     rows |-> SetToBag(UNION {SourceRows(service, PoolYear, m) : m \in 1..k})]

\* the data directory holds the compressed files of every month of both
\* services; each yearly table is absent or left over from an earlier load
InitPool ==
    /\ disk = [path \in {PoolFilePath(sv, PoolYear, m) : sv \in Services, m \in 1..PoolMonths} |->
                 LET f == ParseFilePath(path) IN CanonicalFile(f.service, f.year, f.month)]
    /\ schemas = {TRIPS_DATA_ALL}
    /\ prior \in [Services -> PriorChoices]
    /\ tables = [key \in {TableKey(TRIPS_DATA_ALL, YearlyTableName(PoolFilePath(sv, PoolYear, 1))) :
                             sv \in {x \in Services : prior[x] >= 0}} |->
                   LET sv == CHOOSE x \in Services :
                                 key = TableKey(TRIPS_DATA_ALL, YearlyTableName(PoolFilePath(x, PoolYear, 1)))
                   IN PriorTable(sv, prior[sv])]
    /\ FlowIdle
    /\ PoolIdle
    /\ DagIdle
    /\ FnIdle

\* data_files = yellow_files + green_files, as a set
DataFiles == get_data_files(disk, yellow, PoolYear) \cup get_data_files(disk, green, PoolYear)

\* files of the same yearly table
SameTable(f, g) == YearlyTableKey(f) = YearlyTableKey(g)

\* upload_to_postgres(f) is called: the load of f begins
LoadBegins(f) ==
    earlyAppends' =
        IF /\ ParseFilePath(f).month # 1
           /\ ~\E g \in doneFiles : SameTable(f, g) /\ ParseFilePath(g).month = 1
        THEN earlyAppends \cup {f}
        ELSE earlyAppends

\* load_data(year): the files are listed and handed to pool.map
load_data ==
    /\ poolPhase = "idle"
    /\ poolPhase' = "mapping"
    /\ pending' = DataFiles
    /\ UNCHANGED <<running, doneFiles, raisedFiles, earlyAppends, wiped, prior>>
    /\ UNCHANGED <<envVars, flowVars, histVars, dagVars, fnVars>>

\* an idle worker takes the next chunk of the map and calls
\* upload_to_postgres on its first file
worker_takes_chunk ==
    /\ poolPhase = "mapping"
    /\ pending # {}
    /\ Cardinality(running) < PoolProcesses
    /\ \E c \in NextChunks(pending, MapChunkSize(Cardinality(DataFiles), PoolProcesses)) :
         /\ pending' = pending \ {c[i] : i \in 1..Len(c)}
         /\ running' = running \cup {[chunk |-> c, pc |-> "check"]}
         /\ LoadBegins(c[1])
    /\ UNCHANGED <<poolPhase, doneFiles, raisedFiles, wiped, prior>>
    /\ UNCHANGED <<envVars, flowVars, histVars, dagVars, fnVars>>

\* to_sql: does the table exist?
upload_check ==
    /\ poolPhase = "mapping"
    /\ \E w \in running :
         /\ w.pc = "check"
         /\ LET f == w.chunk[1]
                exists == YearlyTableKey(f) \in DOMAIN tables
                mode == IfExistsFor(ParseFilePath(f).month)
                next == IF exists
                        THEN IF mode = "replace" THEN "drop" ELSE "insert"
                        ELSE "create"
            IN running' = (running \ {w}) \cup {[w EXCEPT !.pc = next]}
    /\ UNCHANGED <<poolPhase, pending, doneFiles, raisedFiles, earlyAppends, wiped, prior>>
    /\ UNCHANGED <<envVars, flowVars, histVars, dagVars, fnVars>>

\* to_sql with if_exists='replace': the existing table is dropped
upload_drop ==
    /\ poolPhase = "mapping"
    /\ \E w \in running :
         /\ w.pc = "drop"
         /\ LET key == YearlyTableKey(w.chunk[1])
            IN IF key \in DOMAIN tables
               THEN /\ tables' = DropTable(tables, key)
                    /\ wiped' = wiped \cup {g \in doneFiles : YearlyTableKey(g) = key}
               ELSE UNCHANGED <<tables, wiped>>
         /\ running' = (running \ {w}) \cup {[w EXCEPT !.pc = "create"]}
    /\ UNCHANGED <<poolPhase, pending, doneFiles, raisedFiles, earlyAppends, prior>>
    /\ UNCHANGED <<disk, schemas, transfers, flowVars, histVars, dagVars, fnVars>>

\* the upload of the head of w's chunk raises: the rest of the chunk is
\* dropped with it, and pool.map will raise once every chunk is through
UploadRaises(w) ==
    /\ running' = running \ {w}
    /\ raisedFiles' = raisedFiles \cup {w.chunk[1]}
    /\ UNCHANGED <<poolPhase, doneFiles, earlyAppends>>

\* to_sql: CREATE TABLE, which fails when the table exists by now
upload_create ==
    /\ poolPhase = "mapping"
    /\ \E w \in running :
         /\ w.pc = "create"
         /\ LET f == w.chunk[1]
                key == YearlyTableKey(f)
            IN IF key \in DOMAIN tables
               THEN /\ UploadRaises(w)
                    /\ tables' = tables
               ELSE /\ tables' = CreateTable(tables, key, disk[f].columns)
                    /\ running' = (running \ {w}) \cup {[w EXCEPT !.pc = "insert"]}
                    /\ UNCHANGED <<poolPhase, doneFiles, raisedFiles, earlyAppends>>
    /\ UNCHANGED <<pending, wiped, prior>>
    /\ UNCHANGED <<disk, schemas, transfers, flowVars, histVars, dagVars, fnVars>>

\* to_sql: the rows are inserted in one transaction, which fails when the
\* table is gone by now; then upload_to_postgres returns and the worker goes
\* on to the next file of its chunk
upload_insert ==
    /\ poolPhase = "mapping"
    /\ \E w \in running :
         /\ w.pc = "insert"
         /\ LET f == w.chunk[1]
                key == YearlyTableKey(f)
            IN IF key \notin DOMAIN tables
               THEN /\ UploadRaises(w)
                    /\ tables' = tables
               ELSE /\ tables' = InsertRows(tables, key, disk[f].rows)
                    /\ doneFiles' = doneFiles \cup {f}
                    /\ UNCHANGED <<poolPhase, raisedFiles>>
                    /\ IF Len(w.chunk) > 1
                       THEN /\ running' = (running \ {w}) \cup {[chunk |-> Tail(w.chunk), pc |-> "check"]}
                            /\ earlyAppends' =
                                 IF /\ ParseFilePath(w.chunk[2]).month # 1
                                    /\ ~\E g \in doneFiles' :
                                          SameTable(w.chunk[2], g) /\ ParseFilePath(g).month = 1
                                 THEN earlyAppends \cup {w.chunk[2]}
                                 ELSE earlyAppends
                       ELSE /\ running' = running \ {w}
                            /\ earlyAppends' = earlyAppends
    /\ UNCHANGED <<pending, wiped, prior>>
    /\ UNCHANGED <<disk, schemas, transfers, flowVars, histVars, dagVars, fnVars>>

\* every chunk is through: pool.map returns and the pool is closed, or
\* pool.map raises the first exception of an upload
pool_map_returns ==
    /\ poolPhase = "mapping"
    /\ pending = {}
    /\ running = {}
    /\ poolPhase' = IF raisedFiles = {} THEN "done" ELSE "raised"
    /\ UNCHANGED <<pending, running, doneFiles, raisedFiles, earlyAppends, wiped, prior>>
    /\ UNCHANGED <<envVars, flowVars, histVars, dagVars, fnVars>>

NextPool ==
    \/ load_data
    \/ worker_takes_chunk
    \/ upload_check
    \/ upload_drop
    \/ upload_create
    \/ upload_insert
    \/ pool_map_returns

SpecPool == InitPool /\ [][NextPool]_vars

\* ------------------------------------------------------------------------
\* elt_pipelines/upload_to_postgres.py: the yearly tables are dropped by
\* setup_database, then every file is appended by a pool of two workers.
\* load_data(2019) finds the data directory and the warehouse of InitPool.
\* ------------------------------------------------------------------------
\* mp.Pool(processes=2 or mp.cpu_count())
EltProcesses == 2

\* f"trips_data_all.{service}_tripdata_{year}" of setup_database
EltTableKey(service, year) ==
    TableKey(TRIPS_DATA_ALL, service \o <<"_", "t", "r", "i", "p", "d", "a", "t", "a", "_">> \o Dec(year))

\* setup_database(year): CREATE SCHEMA IF NOT EXISTS, DROP TABLE IF EXISTS
\* for both services, committed when the connection block is left; a
\* connection error propagates out of load_data
elt_setup_database ==
    /\ poolPhase = "idle"
    /\ \E fault \in {"none", "connect"} :
         IF fault = "none"
         THEN /\ schemas' = schemas \cup {TRIPS_DATA_ALL}
              /\ tables' = DropTable(DropTable(tables, EltTableKey(yellow, PoolYear)),
                                     EltTableKey(green, PoolYear))
              /\ poolPhase' = "listing"
         ELSE /\ UNCHANGED <<schemas, tables>>
              /\ poolPhase' = "setup_failed"
    /\ UNCHANGED <<pending, running, doneFiles, raisedFiles, earlyAppends, wiped, prior>>
    /\ UNCHANGED <<disk, transfers, flowVars, histVars, dagVars, fnVars>>

\* load_data: the files are listed and handed to pool.map
elt_load_data ==
    /\ poolPhase = "listing"
    /\ poolPhase' = "mapping"
    /\ pending' = DataFiles
    /\ UNCHANGED <<running, doneFiles, raisedFiles, earlyAppends, wiped, prior>>
    /\ UNCHANGED <<envVars, flowVars, histVars, dagVars, fnVars>>

\* an idle worker takes the next chunk of the map
elt_worker_takes_chunk ==
    /\ poolPhase = "mapping"
    /\ pending # {}
    /\ Cardinality(running) < EltProcesses
    /\ \E c \in NextChunks(pending, MapChunkSize(Cardinality(DataFiles), EltProcesses)) :
         /\ pending' = pending \ {c[i] : i \in 1..Len(c)}
         /\ running' = running \cup {[chunk |-> c, pc |-> "check"]}
    /\ UNCHANGED <<poolPhase, doneFiles, raisedFiles, earlyAppends, wiped, prior>>
    /\ UNCHANGED <<envVars, flowVars, histVars, dagVars, fnVars>>

\* to_sql with if_exists='append': does the table exist?
elt_upload_check ==
    /\ poolPhase = "mapping"
    /\ \E w \in running :
         /\ w.pc = "check"
         /\ LET next == IF YearlyTableKey(w.chunk[1]) \in DOMAIN tables THEN "insert" ELSE "create"
            IN running' = (running \ {w}) \cup {[w EXCEPT !.pc = next]}
    /\ UNCHANGED <<poolPhase, pending, doneFiles, raisedFiles, earlyAppends, wiped, prior>>
    /\ UNCHANGED <<envVars, flowVars, histVars, dagVars, fnVars>>

\* to_sql: CREATE TABLE, which fails when another worker has created the
\* table since the check; the exception ends the worker's chunk
elt_upload_create ==
    /\ poolPhase = "mapping"
    /\ \E w \in running :
         /\ w.pc = "create"
         /\ LET f == w.chunk[1]
                key == YearlyTableKey(f)
            IN IF key \in DOMAIN tables
               THEN /\ UploadRaises(w)
                    /\ tables' = tables
               ELSE /\ tables' = CreateTable(tables, key, disk[f].columns)
                    /\ running' = (running \ {w}) \cup {[w EXCEPT !.pc = "insert"]}
                    /\ UNCHANGED <<poolPhase, doneFiles, raisedFiles, earlyAppends>>
    /\ UNCHANGED <<pending, wiped, prior>>
    /\ UNCHANGED <<disk, schemas, transfers, flowVars, histVars, dagVars, fnVars>>

\* to_sql: the rows are inserted; upload_to_postgres returns and the worker
\* goes on to the next file of its chunk
elt_upload_insert ==
    /\ poolPhase = "mapping"
    /\ \E w \in running :
         /\ w.pc = "insert"
         /\ LET f == w.chunk[1]
            IN /\ tables' = InsertRows(tables, YearlyTableKey(f), disk[f].rows)
               /\ doneFiles' = doneFiles \cup {f}
               /\ running' = IF Len(w.chunk) > 1
                             THEN (running \ {w}) \cup {[chunk |-> Tail(w.chunk), pc |-> "check"]}
                             ELSE running \ {w}
    /\ UNCHANGED <<poolPhase, pending, raisedFiles, earlyAppends, wiped, prior>>
    /\ UNCHANGED <<disk, schemas, transfers, flowVars, histVars, dagVars, fnVars>>

\* every chunk is through: pool.map returns, or raises the first exception
\* of an upload
elt_pool_map_returns ==
    /\ poolPhase = "mapping"
    /\ pending = {}
    /\ running = {}
    /\ poolPhase' = IF raisedFiles = {} THEN "done" ELSE "raised"
    /\ UNCHANGED <<pending, running, doneFiles, raisedFiles, earlyAppends, wiped, prior>>
    /\ UNCHANGED <<envVars, flowVars, histVars, dagVars, fnVars>>

NextElt ==
    \/ elt_setup_database
    \/ elt_load_data
    \/ elt_worker_takes_chunk
    \/ elt_upload_check
    \/ elt_upload_create
    \/ elt_upload_insert
    \/ elt_pool_map_returns

SpecElt == InitPool /\ [][NextElt]_vars

\* ------------------------------------------------------------------------
\* airflow/dags/ingest_data_dag.py: the definition of LocalIngestionDag and
\* the function upload_to_postgres
\* ------------------------------------------------------------------------
\* start_date=dt.datetime(2021, 1, 1): the execution date of the first run
DagYear == 2021
DagMonth == 1
PUBLIC == <<"p", "u", "b", "l", "i", "c">>

\* url, with {{ execution_date.strftime('%Y-%m') }} rendered
DagUrl(service) ==
    <<"h", "t", "t", "p", "s", ":", "/", "/", "d", "3", "7", "c", "i", "6", "v", "z", "u", "r", "y", "c", "h", "x", ".", "c", "l", "o", "u", "d", "f", "r", "o", "n", "t", ".", "n", "e", "t", "/", "t", "r", "i", "p", "-", "d", "a", "t", "a", "/">>
    \o service \o <<"_", "t", "r", "i", "p", "d", "a", "t", "a", "_">>
    \o ZeroPad(Dec(DagYear), 4) \o <<"-">> \o ZeroPad(Dec(DagMonth), 2)
    \o <<".", "p", "a", "r", "q", "u", "e", "t">>

\* filename = os.path.join('data', service, url.split('/')[-1])
DagFilename(service) ==
    LET parts == StrSplit(DagUrl(service), "/")
    IN <<"d", "a", "t", "a", "/">> \o service \o <<"/">> \o parts[Len(parts)]

\* tablename = f'{service}_tripdata'
DagTableName(service) == service \o <<"_", "t", "r", "i", "p", "d", "a", "t", "a">>

\* the task ids one iteration of the loop over the services gives its three
\* operators, in the order they are created
DagTaskIds(service) ==
    << <<"s", "e", "t", "u", "p", "_", "l", "o", "c", "a", "l", "_", "i", "n", "g", "e", "s", "t", "i", "o", "n">>,
       <<"e", "x", "t", "r", "a", "c", "t", "_">> \o service \o <<"_", "t", "r", "i", "p", "d", "a", "t", "a">>,
       <<"u", "p", "l", "o", "a", "d", "_">> \o service \o <<"_", "t", "r", "i", "p", "d", "a", "t", "a">> >>

\* DAG.add_task for each id in turn: an id the DAG already has raises
\* DuplicateTaskIdFound
RECURSIVE AddTasks(_, _)
AddTasks(ids, dag) ==
    IF ids = <<>> \/ dag.err # "none" THEN dag
    ELSE IF Head(ids) \in dag.tasks
         THEN [tasks |-> dag.tasks, err |-> "DuplicateTaskIdFound"]
         ELSE AddTasks(Tail(ids), [tasks |-> dag.tasks \cup {Head(ids)}, err |-> "none"])

\* with local_workflow: for service in ['yellow', 'green']: ...
DagDefinition == AddTasks(DagTaskIds(yellow) \o DagTaskIds(green), [tasks |-> {}, err |-> "none"])

\* Airflow reads the DAG file: the second iteration creates another operator
\* with task_id "setup_local_ingestion", the definition raises, the DAG is
\* not loaded and none of its tasks is ever run by Airflow
dag_import ==
    /\ dagImport = "none"
    /\ dagImport' = IF DagDefinition.err = "none" THEN "loaded" ELSE DagDefinition.err
    /\ UNCHANGED <<dagPc, dagDf, dagCalls, dagErr, dagStuck>>
    /\ UNCHANGED <<envVars, flowVars, histVars, poolVars, fnVars>>

\* the monthly file of a service as a caller of upload_to_postgres finds it
DagFileChoices == {"absent", "parquet", "corrupt"}
DagDisk(ch) ==
    [path \in {DagFilename(sv) : sv \in {x \in Services : ch[x] # "absent"}} |->
        LET sv == CHOOSE x \in Services : DagFilename(x) = path
        IN IF ch[sv] = "parquet" THEN RemoteFile(sv, DagYear, DagMonth) ELSE CorruptFile]

\* the data directory as upload_to_postgres is first called on it; the
\* warehouse is empty
InitDag ==
    /\ disk \in {DagDisk(ch) : ch \in [Services -> DagFileChoices]}
    /\ tables = <<>>
    /\ schemas = {}
    /\ prior = <<>>
    /\ FlowIdle
    /\ PoolIdle
    /\ DagIdle
    /\ FnIdle

\* upload_to_postgres(filename, tablename, schema) is called, for the first
\* time or again: df = pd.read_parquet(filename)
dag_upload_read(sv) ==
    /\ dagPc[sv] \in {"idle", "success", "failed"}
    /\ dagCalls[sv] < MaxRuns
    /\ dagCalls' = [dagCalls EXCEPT ![sv] = @ + 1]
    /\ LET r == read_parquet(disk, DagFilename(sv))
       IN IF r.err = "none"
          THEN /\ dagDf' = [dagDf EXCEPT ![sv] = r.frame]
               /\ dagPc' = [dagPc EXCEPT ![sv] = "remove"]
               /\ dagErr' = [dagErr EXCEPT ![sv] = "none"]
               /\ dagStuck' = dagStuck
          ELSE /\ dagDf' = dagDf
               /\ dagPc' = [dagPc EXCEPT ![sv] = "failed"]
               /\ dagErr' = [dagErr EXCEPT ![sv] = r.err]
               /\ dagStuck' = IF /\ dagPc[sv] = "failed"
                                 /\ dagErr[sv] \in {"to_sql", "to_parquet"}
                                 /\ r.err = "FileNotFoundError"
                              THEN dagStuck \cup {sv} ELSE dagStuck
    /\ UNCHANGED <<dagImport, envVars, flowVars, histVars, poolVars, fnVars>>

\* os.remove(filename)
dag_upload_remove(sv) ==
    /\ dagPc[sv] = "remove"
    /\ disk' = RemoveFile(disk, DagFilename(sv))
    /\ dagPc' = [dagPc EXCEPT ![sv] = "to_sql"]
    /\ UNCHANGED <<tables, schemas, transfers, dagImport, dagDf, dagCalls, dagErr, dagStuck>>
    /\ UNCHANGED <<flowVars, histVars, poolVars, fnVars>>

\* df.to_sql(tablename, engine, if_exists='append', ...): the schema argument
\* is not handed on, so the table is in the default schema
dag_upload_to_sql(sv) ==
    /\ dagPc[sv] = "to_sql"
    /\ \E fault \in LoadFaults \ {"connect"} :
         LET r == to_sql(tables, dagDf[sv], DagTableName(sv), PUBLIC, "append", fault)
         IN /\ tables' = r.tables
            /\ dagPc' = [dagPc EXCEPT ![sv] = IF r.raised THEN "failed" ELSE "to_parquet"]
            /\ dagErr' = [dagErr EXCEPT ![sv] = IF r.raised THEN "to_sql" ELSE "none"]
    /\ UNCHANGED <<disk, schemas, transfers, dagImport, dagDf, dagCalls, dagStuck>>
    /\ UNCHANGED <<flowVars, histVars, poolVars, fnVars>>

\* df.to_parquet(filename+'.gz', compression='gzip'), then the function returns
dag_upload_to_parquet(sv) ==
    /\ dagPc[sv] = "to_parquet"
    /\ \E outcome \in WriteOutcomes :
         /\ disk' = to_parquet(disk, dagDf[sv], DagFilename(sv) \o GZ, outcome)
         /\ dagPc' = [dagPc EXCEPT ![sv] = IF outcome = "ok" THEN "success" ELSE "failed"]
         /\ dagErr' = [dagErr EXCEPT ![sv] = IF outcome = "ok" THEN "none" ELSE "to_parquet"]
    /\ UNCHANGED <<tables, schemas, transfers, dagImport, dagDf, dagCalls, dagStuck>>
    /\ UNCHANGED <<flowVars, histVars, poolVars, fnVars>>

NextDag ==
    \/ dag_import
    \/ \E sv \in Services :
        \/ dag_upload_read(sv)
        \/ dag_upload_remove(sv)
        \/ dag_upload_to_sql(sv)
        \/ dag_upload_to_parquet(sv)

SpecDag == InitDag /\ [][NextDag]_vars

\* ------------------------------------------------------------------------
\* The naming functions applied to two units (specification SpecNaming)
\* ------------------------------------------------------------------------
\* four-digit years the functions are applied to
NameYears == {1000, 2019, 2020, 9999}
NameUnits == [service : Services, year : NameYears, month : 1..12]

\* the names the programs derive for a unit: the monthly table of
\* pipeline.py, the yearly table upload_to_postgres.py parses out of the
\* file path, and the raw and compressed file paths of pipeline.py
Names(u) ==
    [table |-> construct_table_name(u.service, u.year, u.month),
     yearly |-> YearlyTableName(PoolFilePath(u.service, u.year, u.month)),
     raw |-> construct_file_path(u.service, u.year, u.month),
     gz |-> construct_file_path(u.service, u.year, u.month) \o GZ]

InitNaming ==
    /\ args \in NameUnits \X NameUnits
    /\ result = <<>>
    /\ disk = <<>>
    /\ tables = <<>>
    /\ schemas = {}
    /\ prior = <<>>
    /\ FlowIdle
    /\ PoolIdle
    /\ DagIdle

\* the functions are called for both units
name_units ==
    /\ result = <<>>
    /\ result' = <<Names(args[1]), Names(args[2])>>
    /\ UNCHANGED <<args, envVars, flowVars, histVars, poolVars, dagVars>>

NextNaming == name_units

SpecNaming == InitNaming /\ [][NextNaming]_vars

\* ------------------------------------------------------------------------
\* column_formatter applied to two column names (specification SpecColumns)
\* ------------------------------------------------------------------------
\* the columns of the published yellow and green trip files
KnownColumns(service) ==
    IF service = yellow
    THEN << <<"V", "e", "n", "d", "o", "r", "I", "D">>,
       <<"t", "p", "e", "p", "_", "p", "i", "c", "k", "u", "p", "_", "d", "a", "t", "e", "t", "i", "m", "e">>,
       <<"t", "p", "e", "p", "_", "d", "r", "o", "p", "o", "f", "f", "_", "d", "a", "t", "e", "t", "i", "m", "e">>,
       <<"p", "a", "s", "s", "e", "n", "g", "e", "r", "_", "c", "o", "u", "n", "t">>,
       <<"t", "r", "i", "p", "_", "d", "i", "s", "t", "a", "n", "c", "e">>,
       <<"R", "a", "t", "e", "c", "o", "d", "e", "I", "D">>,
       <<"s", "t", "o", "r", "e", "_", "a", "n", "d", "_", "f", "w", "d", "_", "f", "l", "a", "g">>,
       <<"P", "U", "L", "o", "c", "a", "t", "i", "o", "n", "I", "D">>,
       <<"D", "O", "L", "o", "c", "a", "t", "i", "o", "n", "I", "D">>,
       <<"p", "a", "y", "m", "e", "n", "t", "_", "t", "y", "p", "e">>,
       <<"f", "a", "r", "e", "_", "a", "m", "o", "u", "n", "t">>,
       <<"e", "x", "t", "r", "a">>,
       <<"m", "t", "a", "_", "t", "a", "x">>,
       <<"t", "i", "p", "_", "a", "m", "o", "u", "n", "t">>,
       <<"t", "o", "l", "l", "s", "_", "a", "m", "o", "u", "n", "t">>,
       <<"i", "m", "p", "r", "o", "v", "e", "m", "e", "n", "t", "_", "s", "u", "r", "c", "h", "a", "r", "g", "e">>,
       <<"t", "o", "t", "a", "l", "_", "a", "m", "o", "u", "n", "t">>,
       <<"c", "o", "n", "g", "e", "s", "t", "i", "o", "n", "_", "s", "u", "r", "c", "h", "a", "r", "g", "e">>,
       <<"a", "i", "r", "p", "o", "r", "t", "_", "f", "e", "e">> >>
    ELSE << <<"V", "e", "n", "d", "o", "r", "I", "D">>,
       <<"l", "p", "e", "p", "_", "p", "i", "c", "k", "u", "p", "_", "d", "a", "t", "e", "t", "i", "m", "e">>,
       <<"l", "p", "e", "p", "_", "d", "r", "o", "p", "o", "f", "f", "_", "d", "a", "t", "e", "t", "i", "m", "e">>,
       <<"s", "t", "o", "r", "e", "_", "a", "n", "d", "_", "f", "w", "d", "_", "f", "l", "a", "g">>,
       <<"R", "a", "t", "e", "c", "o", "d", "e", "I", "D">>,
       <<"P", "U", "L", "o", "c", "a", "t", "i", "o", "n", "I", "D">>,
       <<"D", "O", "L", "o", "c", "a", "t", "i", "o", "n", "I", "D">>,
       <<"p", "a", "s", "s", "e", "n", "g", "e", "r", "_", "c", "o", "u", "n", "t">>,
       <<"t", "r", "i", "p", "_", "d", "i", "s", "t", "a", "n", "c", "e">>,
       <<"f", "a", "r", "e", "_", "a", "m", "o", "u", "n", "t">>,
       <<"e", "x", "t", "r", "a">>,
       <<"m", "t", "a", "_", "t", "a", "x">>,
       <<"t", "i", "p", "_", "a", "m", "o", "u", "n", "t">>,
       <<"t", "o", "l", "l", "s", "_", "a", "m", "o", "u", "n", "t">>,
       <<"e", "h", "a", "i", "l", "_", "f", "e", "e">>,
       <<"i", "m", "p", "r", "o", "v", "e", "m", "e", "n", "t", "_", "s", "u", "r", "c", "h", "a", "r", "g", "e">>,
       <<"t", "o", "t", "a", "l", "_", "a", "m", "o", "u", "n", "t">>,
       <<"p", "a", "y", "m", "e", "n", "t", "_", "t", "y", "p", "e">>,
       <<"t", "r", "i", "p", "_", "t", "y", "p", "e">>,
       <<"c", "o", "n", "g", "e", "s", "t", "i", "o", "n", "_", "s", "u", "r", "c", "h", "a", "r", "g", "e">> >>

\* column names that no published trip file of these years has
OtherColumns ==
    << <<"N", "o", "t", "e", "s">>,
   <<"n", "o", "t", "e", "s">>,
   <<"D", "O", "L", "L", "A", "R", "S">>,
   <<"t", "p", "e", "p", "_", "n", "o", "t", "e", "s">>,
   <<"A", "i", "r", "p", "o", "r", "t", "_", "f", "e", "e">>,
   <<"c", "b", "d", "_", "c", "o", "n", "g", "e", "s", "t", "i", "o", "n", "_", "f", "e", "e">> >>

SeqRange(q) == {q[i] : i \in 1..Len(q)}
AllKnownColumns == UNION {SeqRange(KnownColumns(sv)) : sv \in Services}
ColumnSamples == AllKnownColumns \cup SeqRange(OtherColumns)

InitColumns ==
    /\ args \in [service : Services, a : ColumnSamples, b : ColumnSamples]
    /\ result = <<>>
    /\ disk = <<>>
    /\ tables = <<>>
    /\ schemas = {}
    /\ prior = <<>>
    /\ FlowIdle
    /\ PoolIdle
    /\ DagIdle

\* new = [*map(column_formatter, old.copy())] for the two names
format_columns ==
    /\ result = <<>>
    /\ result' = <<column_formatter(args.a), column_formatter(args.b)>>
    /\ UNCHANGED <<args, envVars, flowVars, histVars, poolVars, dagVars>>

NextColumns == format_columns

SpecColumns == InitColumns /\ [][NextColumns]_vars

\* ------------------------------------------------------------------------
\* Properties of the sequential pipeline (specification Spec)
\* ------------------------------------------------------------------------
RawPathOf(i) == construct_file_path(UnitAt(i).service, Year, UnitAt(i).month)
GzPathOf(i) == RawPathOf(i) \o GZ
TableKeyOf(i) == <<STAGING, construct_table_name(UnitAt(i).service, Year, UnitAt(i).month)>>

NoRawArtifact == \A i \in 1..NumUnits : RawPathOf(i) \notin DOMAIN disk
RowCounts == [k \in DOMAIN tables |-> BagCardinality(tables[k].rows)]

\* C1: once a run of etl_taxi_trips has completed without any failure, no raw
\* (uncompressed) artifact is on disk, and every later step of a re-run
\* leaves the row count of every table and the number of transfers unchanged.
C1_RerunIsNoop ==
    [][ /\ (cleanRun' > 0 => NoRawArtifact')
        /\ (cleanRun > 0 => (RowCounts' = RowCounts /\ transfers' = transfers)) ]_vars

\* a re-run has completed after a failure-free run
W_C1 == cleanRun > 0 /\ run > cleanRun /\ flow = "completed"

\* C2: once the load stage of a unit has finished (loaded or 'already
\* exists') in a run after one in which its load failed with the table
\* created, the unit's table holds every source row of the unit exactly once.
C2_RerunAfterPartialLoad ==
    \A i \in reloaded :
        /\ TableKeyOf(i) \in DOMAIN tables
        /\ tables[TableKeyOf(i)].rows = SetToBag(SourceRows(UnitAt(i).service, Year, UnitAt(i).month))

\* C4: when a stage of one unit has failed fatally and the flow run has
\* ended, every other unit of the run has been driven through its load.
C4_FailureIsolation ==
    (flow = "failed" /\ stage # "setup") =>
        \A i \in (1..NumUnits) \ {idx} : i \in uploadsRun

\* C5: a failed transfer is never a completed fetch: after wget has failed,
\* the fetch task is awaiting a retry or has failed.
C5_FetchRetry ==
    lastWget \in {"corrupt", "nofile"} => taskState.fetch \in {"Retrying", "Failed"}

\* C6: a failed insert is never a completed load: after to_sql has raised,
\* the load task is awaiting a retry or has failed.
C6_LoadRetry ==
    loadFault \in {"before_create", "after_create"} => taskState.upload \in {"Retrying", "Failed"}

\* C7: when the raw file or its '.gz' counterpart exists, the fetch stage
\* performs no transfer and leaves the files on disk unchanged.
C7_FetchIdempotent ==
    [][ (/\ flow = "running"
         /\ stage = "fetch"
         /\ (CurPath \in DOMAIN disk \/ (CurPath \o GZ) \in DOMAIN disk))
        => (disk' = disk /\ transfers' = transfers) ]_vars

\* the fetch stage has skipped the transfer of a unit with a file on disk
W_C7 ==
    /\ flow = "running"
    /\ stage = "rename"
    /\ lastWget = "skipped"
    /\ CurPath \in DOMAIN disk

\* C8: whenever the target table exists, the load stage inserts no row and
\* leaves every table unchanged, does not raise, and completes reporting
\* 'already exists' (skipped).
C8_LoadFailIfExists ==
    [][ (/\ flow = "running"
         /\ stage = "upload"
         /\ <<STAGING, CurTable>> \in DOMAIN tables)
        => (/\ tables' = tables
            /\ flow' # "failed"
            /\ (stage' = "return" =>
                  /\ taskState'.upload = "Completed"
                  /\ loadReport' = "exists")) ]_vars

\* C8 (amended): whenever the target table exists, the load stage inserts no
\* row and leaves every table unchanged, does not raise and completes; it
\* reports 'already exists' (skipped) when the existence check is answered,
\* and 'Failed to load data' when the database cannot be reached for it.
C8_LoadFailIfExistsAmended ==
    [][ (/\ flow = "running"
         /\ stage = "upload"
         /\ <<STAGING, CurTable>> \in DOMAIN tables)
        => (/\ tables' = tables
            /\ flow' # "failed"
            /\ (stage' = "return" =>
                  /\ taskState'.upload = "Completed"
                  /\ loadReport' = (IF loadFault' = "connect" THEN "failed" ELSE "exists"))) ]_vars

\* the load stage has skipped a unit whose table existed
W_C8 ==
    /\ flow = "running"
    /\ stage = "return"
    /\ loadReport = "exists"
    /\ <<STAGING, CurTable>> \in DOMAIN tables

\* C10: after the transform stage of a unit has completed, once or more
\* often, the unit has exactly one artifact: the '.gz' file, with the
\* contents the first transform gave it, and no raw file.
C10_TransformIdempotent ==
    \A i \in 1..NumUnits :
        xformCount[i] >= 1 =>
            /\ GzPathOf(i) \in DOMAIN disk
            /\ RawPathOf(i) \notin DOMAIN disk
            /\ firstCanon[i].kind = "parquet"
            /\ disk[GzPathOf(i)] = firstCanon[i]

\* the transform stage of a unit has completed twice
W_C10 == \E i \in 1..NumUnits : xformCount[i] >= 2

\* C11: from the return of a fetch that found or transferred the unit's file
\* to the end of the transform stage, whether the flow runs, has failed or
\* was killed, the raw file or the '.gz' file of the unit is on disk.
C11_ArtifactHandOver ==
    (/\ flow \in {"running", "failed", "crashed"}
     /\ stage \in {"rename", "replace", "replace_write"}
     /\ lastWget \in {"ok", "skipped"})
    => (CurPath \in DOMAIN disk \/ (CurPath \o GZ) \in DOMAIN disk)

\* progress of the current unit through etl_subflow: the stage, then the
\* failed attempts of its task, then the half of replace_data_file
StageNo(st) ==
    CASE st = "fetch" -> 0
      [] st = "rename" -> 1
      [] st \in {"replace", "replace_write"} -> 2
      [] st = "upload" -> 3
      [] OTHER -> 4
UnitRank == StageNo(stage) * 2 * (Retries + 1) + 2 * tries + (IF stage = "replace_write" THEN 1 ELSE 0)

\* C15: fetch and load, like every task of a unit, are executed at most
\* 1 + Retries times; an attempt of fetch whose transfer failed, or of load
\* whose insert failed, is followed by a further attempt while fewer than
\* 1 + Retries were made, and after the last one the stage fails for the
\* unit; once a task has failed nothing is executed any more in that run; a
\* further attempt of one task executes no other task; and every step of a
\* unit's etl_subflow moves it strictly forward in a bounded order, so the
\* unit's pipeline terminates.
C15_BoundedRetry ==
    [][ LET FetchAttemptFailed == /\ attempts'.fetch > attempts.fetch
                                  /\ lastWget' \in {"corrupt", "nofile"}
            LoadAttemptFailed == /\ attempts'.upload > attempts.upload
                                 /\ loadReport' = "failed"
            RetriedOrFailed(t) == IF attempts'[t] < 1 + Retries
                                  THEN taskState'[t] = "Retrying" /\ flow' = "running"
                                  ELSE taskState'[t] = "Failed" /\ flow' = "failed"
        IN /\ \A t \in DOMAIN attempts : attempts'[t] <= 1 + Retries
           /\ FetchAttemptFailed => RetriedOrFailed("fetch")
           /\ LoadAttemptFailed => RetriedOrFailed("upload")
           /\ ((\E t \in DOMAIN taskState : taskState[t] = "Failed") /\ run' = run)
                  => attempts' = attempts
           /\ \A t \in DOMAIN attempts :
                  (attempts[t] >= 1 /\ attempts'[t] > attempts[t])
                      => \A u \in (DOMAIN attempts) \ {t} : attempts'[u] = attempts[u]
           /\ (flow = "running" /\ flow' = "running" /\ idx' = idx /\ run' = run)
                  => (UnitRank' > UnitRank /\ UnitRank' <= 4 * 2 * (Retries + 1)) ]_vars

\* C16: within a unit, rename_columns and replace_data_file are executed
\* only after fetch_dataset has returned, and upload_to_postgres only after
\* both have returned; while a unit is worked on, every earlier unit of the
\* run has been through its load and no later unit has begun; the loop moves
\* on to the next unit only when the load of the current one has returned.
C16_StageOrder ==
    [][ /\ (attempts'.rename >= 1 \/ attempts'.replace >= 1) => taskState'.fetch = "Completed"
        /\ attempts'.replace >= 1 => taskState'.rename = "Completed"
        /\ attempts'.upload >= 1 =>
               (taskState'.rename = "Completed" /\ taskState'.replace = "Completed")
        /\ attempts' # NoAttempts => uploadsRun' \ {idx'} = 1..(idx' - 1)
        /\ (idx' # idx /\ run' = run /\ idx >= 1) =>
               (idx' = idx + 1 /\ taskState.upload = "Completed") ]_vars

\* the load of the second unit of a run has been executed
W_C16 ==
    /\ idx = 2
    /\ attempts.upload = 1
    /\ 1 \in uploadsRun

\* the file at the path, when there is one, is a complete parquet file
CompleteIfPresent(path) == path \in DOMAIN disk => disk[path].kind = "parquet"

\* C19: a file at the raw or the '.gz' path of a unit is the result of a
\* transfer or a transform that completed, so a fetch that takes the
\* 'already exists' branch skips a complete file.
C19_FetchSkipsCompleteWork ==
    /\ \A i \in 1..NumUnits : CompleteIfPresent(RawPathOf(i)) /\ CompleteIfPresent(GzPathOf(i))
    /\ lastWget = "skipped" => (CompleteIfPresent(CurPath) /\ CompleteIfPresent(CurPath \o GZ))

\* ------------------------------------------------------------------------
\* Properties of the pool of yearly loads (specification SpecPool)
\* ------------------------------------------------------------------------
PoolFiles == {PoolFilePath(sv, PoolYear, m) : sv \in Services, m \in 1..PoolMonths}
YearRows(service) == UNION {SourceRows(service, PoolYear, m) : m \in 1..PoolMonths}
YearKey(service) == TableKey(TRIPS_DATA_ALL, YearlyTableName(PoolFilePath(service, PoolYear, 1)))

\* C3: the load of a month other than 1 begins only after the month 1 load
\* of the same yearly table has completed, and no month loaded in this run
\* is dropped by the replace.
C3_ResetBeforeAppend == earlyAppends = {} /\ wiped = {}

\* C9: when month 1 of a yearly table was loaded before the load of any
\* other month began and every load has returned, the table holds every
\* source row of the year exactly once, whatever it held before.
C9_AppendWithReset ==
    \A sv \in Services :
        (/\ poolPhase = "done"
         /\ \A f \in earlyAppends : ParseFilePath(f).service # sv)
        => /\ YearKey(sv) \in DOMAIN tables
           /\ tables[YearKey(sv)].rows = SetToBag(YearRows(sv))

\* all months were loaded in that order into a table with leftover rows
W_C9 ==
    /\ poolPhase = "done"
    /\ earlyAppends = {}
    /\ doneFiles = PoolFiles
    /\ \A sv \in Services : prior[sv] >= 1

\* ------------------------------------------------------------------------
\* Properties of the pre-pass variant (specification SpecElt)
\* ------------------------------------------------------------------------
\* C18: when pool.map of load_data is through, no upload has raised, every
\* data file of the year has been appended, and each yearly table holds
\* every source row of its files exactly once.
C18_PrePassAppends ==
    poolPhase \in {"done", "raised"} =>
        /\ raisedFiles = {}
        /\ doneFiles = PoolFiles
        /\ \A sv \in Services :
               /\ YearKey(sv) \in DOMAIN tables
               /\ tables[YearKey(sv)].rows = SetToBag(YearRows(sv))

\* ------------------------------------------------------------------------
\* Properties of LocalIngestionDag (specification SpecDag)
\* ------------------------------------------------------------------------
DagKey(service) == TableKey(PUBLIC, DagTableName(service))

\* C12: however often upload_to_postgres is called for a (service, month)
\* file, no source row is in the service's table more than once, and a call
\* repeated after a failure inside upload_to_postgres does not fail on the
\* file being gone.
C12_DagReinvocation ==
    \A sv \in Services :
        /\ DagKey(sv) \in DOMAIN tables =>
               \A row \in BagToSet(tables[DagKey(sv)].rows) :
                   CopiesIn(row, tables[DagKey(sv)].rows) <= 1
        /\ sv \notin dagStuck

\* ------------------------------------------------------------------------
\* Properties of the naming functions (specification SpecNaming)
\* ------------------------------------------------------------------------
SameYearlyPartition(a, b) == a.service = b.service /\ a.year = b.year

\* C13: for services yellow and green, four-digit years and months 1..12,
\* two units have the same monthly table name exactly when they are the
\* same unit, the same yearly table name exactly when they have the same
\* service and year, and no monthly name is a yearly name.
C13_PartitionNames ==
    result # <<>> =>
        /\ (result[1].table = result[2].table) <=> (args[1] = args[2])
        /\ (result[1].yearly = result[2].yearly) <=> SameYearlyPartition(args[1], args[2])
        /\ result[1].table # result[2].yearly
        /\ result[1].table # result[1].yearly

\* two months of one service and year have been named
W_C13 ==
    /\ result # <<>>
    /\ SameYearlyPartition(args[1], args[2])
    /\ args[1].month # args[2].month

\* C17: two distinct units have distinct raw paths and distinct compressed
\* paths, and the raw path of one is not the compressed path of the other.
C17_ArtifactPaths ==
    (result # <<>> /\ args[1] # args[2]) =>
        /\ result[1].raw # result[2].raw
        /\ result[1].gz # result[2].gz
        /\ result[1].raw # result[2].gz

\* the paths of two services' units of the same month have been built
W_C17 ==
    /\ result # <<>>
    /\ args[1].service # args[2].service
    /\ args[1].year = args[2].year
    /\ args[1].month = args[2].month

\* ------------------------------------------------------------------------
\* Properties of column_formatter (specification SpecColumns)
\* ------------------------------------------------------------------------
\* the name is lower-case and free of the prefixes column_formatter removes
IsCanonicalName(name) ==
    /\ StrLower(name) = name
    /\ StrReplace(name, <<"t", "p", "e", "p", "_">>, <<>>) = name
    /\ StrReplace(name, <<"l", "p", "e", "p", "_">>, <<>>) = name

\* two distinct columns of one file of the service keep distinct names, and
\* the name given to a known column is canonical
KnownColumnsRenamed ==
    LET known == SeqRange(KnownColumns(args.service))
    IN /\ (args.a \in known /\ args.b \in known /\ args.a # args.b) => result[1] # result[2]
       /\ args.a \in known => IsCanonicalName(result[1])

\* C14: every known source column gets one canonical name, distinct source
\* columns of one file get distinct names, and every column name that is
\* not a known source column passes through unchanged.
C14_ColumnRenaming ==
    result # <<>> =>
        /\ KnownColumnsRenamed
        /\ args.b \notin AllKnownColumns => result[2] = args.b

\* C14, amended: as above for the known columns; a column name that is not
\* a known source column passes through unchanged when it is lower-case and
\* has neither 'tpep_' nor 'lpep_' in it.
C14_ColumnRenamingAmended ==
    result # <<>> =>
        /\ KnownColumnsRenamed
        /\ (args.b \notin AllKnownColumns /\ IsCanonicalName(args.b)) => result[2] = args.b

\* a known column was renamed next to an unknown lower-case column
W_C14 ==
    /\ result # <<>>
    /\ args.a \in SeqRange(KnownColumns(args.service))
    /\ result[1] # args.a
    /\ args.b \notin AllKnownColumns
    /\ IsCanonicalName(args.b)

====
